---------------------------- MODULE Spec2Model ----------------------------
(***************************************************************************)
(* Model of the fsm crate: the State trait (a cursor over the variants of  *)
(* a unit enum), the conversions the derive macro generates for it, and    *)
(* the StateIter double-ended iterator.                                    *)
(*                                                                         *)
(* A behaviour fixes one enum (its number of variants MAX), holds one      *)
(* cursor value and at most one iterator session, and applies the trait's  *)
(* methods in any order.  History variables record what the calls          *)
(* returned so that the properties can speak about them.                   *)
(***************************************************************************)
EXTENDS Integers, Sequences, FiniteSets, TLC

(* ------------------------------ bounds --------------------------------- *)

\* largest number of variants of the enums explored
MaxN == 5

\* longest first leg of a recorded next/previous round trip
MaxK == 2

\* most calls recorded on one iterator session
MaxCalls == 6

(* ----------------------------- constants ------------------------------- *)

\* range of the u8 index type (const MAX: u8)
U8 == 256

\* identifiers of the variants, in declaration order
Names == <<"A", "B", "C", "D", "E", "F", "G", "H">>

\* Result::Err(()) of try_from, Option::None of the iterator, and the
\* marker of "no call made yet"
Err == "Err"
None == "None"
NoCall == "NoCall"

VARIABLES
    MAX,        \* State::MAX of the enum under study
    cursor,     \* the cursor: the current state value
    pre,        \* the cursor's value immediately before the last cursor call
    ret,        \* the value the last cursor call returned
    lastOp,     \* the last cursor call and its argument
    orig,       \* the cursor's value at the start of the recorded trip
    legOp,      \* the operation of the first leg of the recorded trip
    fwd,        \* number of first-leg calls of the trip
    back,       \* number of second-leg (inverse) calls of the trip
    panicked,   \* an unwrap (or an arithmetic check) failed
    live,       \* an iterator session exists
    iter,       \* the StateIter: item, pos, infinite, done
    src,        \* the state the session was created from
    out,        \* the elements the session has yielded, in order
    dirs,       \* the calls made on the session: "front" / "back"
    itRet       \* what the last iterator call returned

vars == <<MAX, cursor, pre, ret, lastOp, orig, legOp, fwd, back, panicked,
          live, iter, src, out, dirs, itRet>>

cursorVars == <<cursor, pre, ret, lastOp, orig, legOp, fwd, back>>
iterVars == <<live, iter, src, out, dirs, itRet>>

(* -------------------- generated conversions (derive) ------------------- *)

\* the identifier of the i-th variant (i from 1): the letters first, then
\* generated identifiers, enough for the largest enum a u8 can index
VariantName(i) == IF i <= Len(Names) THEN Names[i] ELSE "V" \o ToString(i - 1)

\* the variants of the enum, in declaration order
variants ==
    IF MAX <= Len(Names)
    THEN SubSeq(Names, 1, MAX)
    ELSE [i \in 1..MAX |-> VariantName(i)]

\* try_from that falls back to the first variant instead of failing
try_from_default(d) ==
    IF \E i \in 1..Len(variants) : i - 1 = d
    THEN variants[d + 1]
    ELSE variants[1]

\* impl TryFrom<u8>: the match  i => variant_i , _ => Err(())
try_from(d) ==
    IF \E i \in 1..Len(variants) : i - 1 = d
    THEN variants[d + 1]
    ELSE Err

\* impl From<T> for u8: the match  variant_i => i
into(state) == CHOOSE i \in 0..(Len(variants) - 1) : variants[i + 1] = state

(* ----------------------------- State trait ----------------------------- *)

start == try_from(0)

end == try_from(MAX - 1)

len == MAX

\* .ok().unwrap() on a conversion result, then std::mem::replace(self, new):
\* the cursor takes the new value and the old one is returned; a failed
\* unwrap panics and leaves the cursor as it was
replace(self, r) ==
    IF r = Err
    THEN [self |-> self, ret |-> None, panic |-> TRUE]
    ELSE [self |-> r, ret |-> self, panic |-> FALSE]

(* mutants of next *)

\* next that saturates at the last state instead of wrapping
next_saturating(self) ==
    LET t == into(self)
        n == IF t + 1 >= MAX THEN t ELSE t + 1
    IN  replace(self, try_from(n))

\* next that returns the state advanced to instead of the prior state
next_returns_new(self) ==
    LET t == into(self)
        r == try_from(((t + 1) % U8) % MAX)
    IN  [self |-> r, ret |-> r, panic |-> FALSE]

\* next without the reduction modulo MAX
next_no_mod(self) ==
    LET t == into(self)
        sum == t + 1
    IN  IF sum >= U8
        THEN [self |-> self, ret |-> None, panic |-> TRUE]
        ELSE replace(self, try_from(sum))

\* fn next(&mut self) -> Self
next(self) ==
    LET t == into(self)
        sum == t + 1
        n == (sum % U8) % MAX
        r == replace(self, try_from(n))
    IN  IF sum >= U8
        THEN [self |-> self, ret |-> None, panic |-> TRUE]
        ELSE r

(* mutants of previous *)

\* previous that computes t - 1 in u8 without the t == 0 case
previous_no_wrap(self) ==
    LET t == into(self)
        p == (t - 1 + U8) % U8
    IN  replace(self, try_from(p))

\* previous that wraps to the first state instead of the last
previous_wraps_to_start(self) ==
    LET t == into(self)
        p == IF t = 0 THEN 0 ELSE t - 1
    IN  replace(self, try_from(p))

\* fn previous(&mut self) -> Self
previous(self) ==
    LET t == into(self)
        p == (IF t = 0 THEN MAX ELSE t) - 1
    IN  replace(self, try_from(p))

(* mutant of goto *)

\* goto that only moves to a neighbouring state
goto_adjacent_only(self, other) ==
    LET d == into(self) - into(other)
    IN  IF d \in {-1, 0, 1}
        THEN [self |-> other, ret |-> self, panic |-> FALSE]
        ELSE [self |-> self, ret |-> self, panic |-> FALSE]

\* fn goto(&mut self, other: Self) -> Self
goto(self, other) == [self |-> other, ret |-> self, panic |-> FALSE]

\* fn into_iter(self) -> StateIter<Self>
into_iter(self) ==
    [item |-> self, pos |-> into(self), infinite |-> TRUE, done |-> FALSE]

\* fn into_iter_once(self) -> StateIter<Self>
into_iter_once(self) ==
    [item |-> self, pos |-> into(self), infinite |-> FALSE, done |-> FALSE]

\* flip that always lands on the first state instead of toggling
flip_to_start(self) == [self |-> start, ret |-> self, panic |-> FALSE]

\* StateFlip::flip
flip(self) == next(self)

(* ------------------------------ StateIter ------------------------------ *)

(* mutants of iter_next *)

\* forward step that tests for end() after advancing instead of before
iter_next_checks_after(it) ==
    IF it.done
    THEN [it |-> it, ret |-> None, panic |-> FALSE]
    ELSE LET r == next(it.item)
         IN  IF r.panic
             THEN [it |-> it, ret |-> None, panic |-> TRUE]
             ELSE [it |-> [item |-> r.self, pos |-> into(r.ret),
                           infinite |-> it.infinite,
                           done |-> (~it.infinite /\ r.self = end)],
                   ret |-> r.ret, panic |-> FALSE]

\* forward step that yields the state advanced to instead of the prior one
iter_next_yields_advanced(it) ==
    IF it.done
    THEN [it |-> it, ret |-> None, panic |-> FALSE]
    ELSE LET r == next(it.item)
         IN  IF r.panic
             THEN [it |-> it, ret |-> None, panic |-> TRUE]
             ELSE [it |-> [item |-> r.self, pos |-> into(r.self),
                           infinite |-> it.infinite,
                           done |-> (~it.infinite /\ it.item = end)],
                   ret |-> r.self, panic |-> FALSE]

\* forward step without the early return on done
iter_next_ignores_done(it) ==
    LET r == next(it.item)
    IN  IF r.panic
        THEN [it |-> it, ret |-> None, panic |-> TRUE]
        ELSE [it |-> [item |-> r.self, pos |-> into(r.ret),
                      infinite |-> it.infinite,
                      done |-> (it.done \/ (~it.infinite /\ it.item = end))],
              ret |-> r.ret, panic |-> FALSE]

\* forward step that stops at end() in infinite mode too
iter_next_ignores_infinite(it) ==
    IF it.done
    THEN [it |-> it, ret |-> None, panic |-> FALSE]
    ELSE LET r == next(it.item)
         IN  IF r.panic
             THEN [it |-> it, ret |-> None, panic |-> TRUE]
             ELSE [it |-> [item |-> r.self, pos |-> into(r.ret),
                           infinite |-> it.infinite,
                           done |-> (it.item = end)],
                   ret |-> r.ret, panic |-> FALSE]

\* impl Iterator for StateIter: fn next(&mut self) -> Option<T>
iter_next(it) ==
    IF it.done
    THEN [it |-> it, ret |-> None, panic |-> FALSE]
    ELSE LET d == IF ~it.infinite /\ it.item = end THEN TRUE ELSE it.done
             r == next(it.item)
         IN  IF r.panic
             THEN [it |-> [it EXCEPT !.done = d], ret |-> None, panic |-> TRUE]
             ELSE [it |-> [item |-> r.self, pos |-> into(r.ret),
                           infinite |-> it.infinite, done |-> d],
                   ret |-> r.ret, panic |-> FALSE]

(* mutants of next_back *)

\* backward step that tests for start() after retreating instead of before
next_back_checks_after(it) ==
    IF it.done
    THEN [it |-> it, ret |-> None, panic |-> FALSE]
    ELSE LET r == previous(it.item)
         IN  IF r.panic
             THEN [it |-> it, ret |-> None, panic |-> TRUE]
             ELSE [it |-> [item |-> r.self, pos |-> into(r.ret),
                           infinite |-> it.infinite,
                           done |-> (~it.infinite /\ r.self = start)],
                   ret |-> r.ret, panic |-> FALSE]

\* backward step that tests against end(), as the forward step does
next_back_checks_end(it) ==
    IF it.done
    THEN [it |-> it, ret |-> None, panic |-> FALSE]
    ELSE LET r == previous(it.item)
         IN  IF r.panic
             THEN [it |-> it, ret |-> None, panic |-> TRUE]
             ELSE [it |-> [item |-> r.self, pos |-> into(r.ret),
                           infinite |-> it.infinite,
                           done |-> (~it.infinite /\ it.item = end)],
                   ret |-> r.ret, panic |-> FALSE]

\* impl DoubleEndedIterator for StateIter: fn next_back(&mut self) -> Option<T>
next_back(it) ==
    IF it.done
    THEN [it |-> it, ret |-> None, panic |-> FALSE]
    ELSE LET d == IF ~it.infinite /\ it.item = start THEN TRUE ELSE it.done
             r == previous(it.item)
         IN  IF r.panic
             THEN [it |-> [it EXCEPT !.done = d], ret |-> None, panic |-> TRUE]
             ELSE [it |-> [item |-> r.self, pos |-> into(r.ret),
                           infinite |-> it.infinite, done |-> d],
                   ret |-> r.ret, panic |-> FALSE]

\* fn size_hint(&self) -> (usize, Option<usize>)
size_hint(it) == <<it.pos, MAX>>

(* ------------------------------- actions ------------------------------- *)

States == {variants[i] : i \in 1..Len(variants)}

Init ==
    /\ MAX \in 1..MaxN
    /\ cursor \in {Names[i] : i \in 1..MAX}
    /\ pre = cursor
    /\ ret = NoCall
    /\ lastOp = [op |-> "none", arg |-> None]
    /\ orig = cursor
    /\ legOp = "none"
    /\ fwd = 0
    /\ back = 0
    /\ panicked = FALSE
    /\ live = FALSE
    /\ iter = [item |-> cursor, pos |-> 0, infinite |-> FALSE, done |-> FALSE]
    /\ src = cursor
    /\ out = << >>
    /\ dirs = << >>
    /\ itRet = NoCall

\* the recorded trip after one more next/previous call: it grows while the
\* calls have the shape op^fwd inverse(op)^back, and restarts at the
\* cursor's current value otherwise
Trip(op) ==
    IF fwd > 0 /\ back = 0 /\ op = legOp /\ fwd < MaxK
    THEN /\ fwd' = fwd + 1
         /\ UNCHANGED <<orig, legOp, back>>
    ELSE IF fwd > 0 /\ op # legOp /\ back < fwd
    THEN /\ back' = back + 1
         /\ UNCHANGED <<orig, legOp, fwd>>
    ELSE /\ orig' = cursor
         /\ legOp' = op
         /\ fwd' = 1
         /\ back' = 0

\* a cursor call with result r, recorded as op (counted in the trip as leg)
CursorCall(r, op, arg, leg) ==
    /\ ~panicked
    /\ panicked' = r.panic
    /\ cursor' = r.self
    /\ pre' = cursor
    /\ ret' = r.ret
    /\ lastOp' = [op |-> op, arg |-> arg]
    /\ IF r.panic
       THEN UNCHANGED <<orig, legOp, fwd, back>>
       ELSE Trip(leg)
    /\ UNCHANGED <<MAX, live, iter, src, out, dirs, itRet>>

CallNext == CursorCall(next(cursor), "next", None, "next")

CallPrevious == CursorCall(previous(cursor), "previous", None, "previous")

CallFlip ==
    /\ MAX = 2
    /\ CursorCall(flip(cursor), "flip", None, "next")

\* a call of goto with target other
Goto(other) ==
    LET r == goto(cursor, other)
    IN  /\ ~panicked
        /\ cursor' = r.self
        /\ pre' = cursor
        /\ ret' = r.ret
        /\ lastOp' = [op |-> "goto", arg |-> other]
        /\ orig' = r.self
        /\ legOp' = "none"
        /\ fwd' = 0
        /\ back' = 0
        /\ UNCHANGED <<MAX, panicked, live, iter, src, out, dirs, itRet>>

CallGoto == \E other \in States : Goto(other)

\* a new session from the cursor's current value (the cursor is Copy)
NewSession(it) ==
    /\ ~panicked
    /\ live' = TRUE
    /\ iter' = it
    /\ src' = cursor
    /\ out' = << >>
    /\ dirs' = << >>
    /\ itRet' = NoCall
    /\ UNCHANGED <<MAX, panicked, cursor, pre, ret, lastOp, orig, legOp, fwd, back>>

CallIntoIter == NewSession(into_iter(cursor))

CallIntoIterOnce == NewSession(into_iter_once(cursor))

\* a session that steps the cursor it was created from instead of a copy
IterCall_aliases_cursor(r, dir) ==
    /\ ~panicked
    /\ live
    /\ Len(dirs) < MaxCalls
    /\ panicked' = r.panic
    /\ iter' = r.it
    /\ cursor' = r.it.item
    /\ itRet' = r.ret
    /\ dirs' = Append(dirs, dir)
    /\ out' = IF r.ret = None THEN out ELSE Append(out, r.ret)
    /\ UNCHANGED <<MAX, live, src, pre, ret, lastOp, orig, legOp, fwd, back>>

\* a call on the session with result r, from the front or the back
IterCall(r, dir) ==
    /\ ~panicked
    /\ live
    /\ Len(dirs) < MaxCalls
    /\ panicked' = r.panic
    /\ iter' = r.it
    /\ itRet' = r.ret
    /\ dirs' = Append(dirs, dir)
    /\ out' = IF r.ret = None THEN out ELSE Append(out, r.ret)
    /\ UNCHANGED <<MAX, live, src, cursor, pre, ret, lastOp, orig, legOp, fwd, back>>

CallIterNext == IterCall(iter_next(iter), "front")

CallNextBack == IterCall(next_back(iter), "back")

Next ==
    \/ CallNext
    \/ CallPrevious
    \/ CallFlip
    \/ CallGoto
    \/ CallIntoIter
    \/ CallIntoIterOnce
    \/ CallIterNext
    \/ CallNextBack

Spec == Init /\ [][Next]_vars

(* ---------------- the cursor over enums of any u8 size ----------------- *)

\* the sizes explored: the smallest enums and the largest a u8 can index
WideSizes == {1, 2, U8 - 2, U8 - 1}

InitWide ==
    /\ MAX \in WideSizes
    /\ cursor \in States
    /\ pre = cursor
    /\ ret = NoCall
    /\ lastOp = [op |-> "none", arg |-> None]
    /\ orig = cursor
    /\ legOp = "none"
    /\ fwd = 0
    /\ back = 0
    /\ panicked = FALSE
    /\ live = FALSE
    /\ iter = [item |-> start, pos |-> 0, infinite |-> FALSE, done |-> FALSE]
    /\ src = start
    /\ out = << >>
    /\ dirs = << >>
    /\ itRet = NoCall

\* goto with the first or the last state as target
CallGotoBoundary == \E other \in {start, end} : Goto(other)

NextWide ==
    \/ CallNext
    \/ CallPrevious
    \/ CallGotoBoundary

SpecWide == InitWide /\ [][NextWide]_vars

(* ------------------- the conversions on their own --------------------- *)

\* T::try_from(d) for any u8 d; the call and its result are recorded in
\* lastOp and ret
CallTryFrom ==
    \E d \in 0..(U8 - 1) :
        /\ lastOp' = [op |-> "try_from", arg |-> d]
        /\ ret' = try_from(d)
        /\ UNCHANGED <<MAX, cursor, pre, orig, legOp, fwd, back, panicked,
                       live, iter, src, out, dirs, itRet>>

\* u8::from(state) for any state of the enum
CallInto ==
    \E state \in States :
        /\ lastOp' = [op |-> "into", arg |-> state]
        /\ ret' = into(state)
        /\ UNCHANGED <<MAX, cursor, pre, orig, legOp, fwd, back, panicked,
                       live, iter, src, out, dirs, itRet>>

NextConv ==
    \/ CallTryFrom
    \/ CallInto

SpecConv == Init /\ [][NextConv]_vars

(* ------------------- vocabulary of the properties ---------------------- *)

\* the state with index i and the index of state s, read off the
\* declaration order
NameAt(i) == Names[i + 1]
IdxOf(s) == CHOOSE i \in 0..(Len(Names) - 1) : Names[i + 1] = s

\* the states with indices a, a+1, ..., b (empty when a > b)
Ascending(a, b) == [i \in 1..(b - a + 1) |-> NameAt(a + i - 1)]

\* the states with indices a, a-1, ..., b (empty when a < b)
Descending(a, b) == [i \in 1..(a - b + 1) |-> NameAt(a - i + 1)]

Min(a, b) == IF a < b THEN a ELSE b

\* a bounded session on which only next / only next_back has been called
Bounded == live /\ ~iter.infinite
FrontOnly == Bounded /\ \A i \in 1..Len(dirs) : dirs[i] = "front"
BackOnly == Bounded /\ \A i \in 1..Len(dirs) : dirs[i] = "back"

(* ------------------------------ properties ----------------------------- *)

\* C1: after next, the cursor is the state with index (i + 1) mod N, where
\* i is the index of the state before the call; from end() it is start().
C1_NextAdvancesModN ==
    lastOp.op = "next" =>
        /\ ~panicked
        /\ cursor = NameAt((IdxOf(pre) + 1) % MAX)
        /\ (pre = NameAt(MAX - 1) => cursor = NameAt(0))

C1_Witness ==
    /\ lastOp.op = "next"
    /\ MAX = 5
    /\ pre = "E"
    /\ cursor = "A"

\* C2: after previous, the cursor is the state with index N-1 when the
\* index i before the call was 0, and i-1 otherwise; from start() it is end().
C2_PreviousRetreatsWithWrap ==
    lastOp.op = "previous" =>
        /\ ~panicked
        /\ cursor = NameAt(IF IdxOf(pre) = 0 THEN MAX - 1 ELSE IdxOf(pre) - 1)
        /\ (pre = NameAt(0) => cursor = NameAt(MAX - 1))

C2_Witness ==
    /\ lastOp.op = "previous"
    /\ MAX = 5
    /\ pre = "A"
    /\ cursor = "E"

\* C3: next, previous and goto each return the state that was current
\* immediately before the call.
C3_ReturnsPriorState ==
    lastOp.op \in {"next", "previous", "goto"} => ret = pre

C3_Witness ==
    /\ lastOp.op = "next"
    /\ MAX = 4
    /\ pre = "D"
    /\ cursor = "A"
    /\ ret = "D"

\* C4: after goto(target) the cursor equals target, whatever the current
\* state was.
C4_GotoSetsTarget ==
    lastOp.op = "goto" => cursor = lastOp.arg

C4_Witness ==
    /\ lastOp = [op |-> "goto", arg |-> "D"]
    /\ pre = "A"
    /\ cursor = "D"

\* C5: k calls of next followed by k calls of previous, or k calls of
\* previous followed by k calls of next, leave the cursor where it started.
C5_RoundTrip ==
    (fwd > 0 /\ back = fwd) => cursor = orig

C5_Witness ==
    /\ legOp = "next"
    /\ fwd = MaxK
    /\ back = fwd
    /\ MAX >= 3
    /\ orig = NameAt(MAX - 1)
    /\ cursor = orig

\* C6: a bounded session created at s and consumed only from the front
\* yields s, its successors, ..., end(): N - indexOf(s) elements, one per
\* call, is done exactly when the last of them was yielded, and yields
\* nothing after that.
C6_FrontYieldsToEnd ==
    FrontOnly =>
        LET p == IdxOf(src)
            n == MAX - p
        IN  /\ Len(out) = Min(Len(dirs), n)
            /\ out = Ascending(p, p + Len(out) - 1)
            /\ (iter.done <=> Len(out) = n)
            /\ (Len(dirs) > n => itRet = None)

C6_Witness ==
    /\ FrontOnly
    /\ MAX = 4
    /\ src = "B"
    /\ out = <<"B", "C", "D">>
    /\ Len(dirs) = 4
    /\ itRet = None

\* C7: a bounded session created at s and consumed only from the back
\* yields s, its predecessors, ..., start(): indexOf(s) + 1 elements, one
\* per call, is done exactly when the last of them was yielded, and yields
\* nothing after that.
C7_BackYieldsToStart ==
    BackOnly =>
        LET p == IdxOf(src)
            n == p + 1
        IN  /\ Len(out) = Min(Len(dirs), n)
            /\ out = Descending(p, p - Len(out) + 1)
            /\ (iter.done <=> Len(out) = n)
            /\ (Len(dirs) > n => itRet = None)

C7_Witness ==
    /\ BackOnly
    /\ MAX = 5
    /\ src = "C"
    /\ out = <<"C", "B", "A">>
    /\ Len(dirs) = 4
    /\ itRet = None

\* C8 as stated: the bounded session created at start() yields the N states
\* in index order from the front, and the same N states in reverse order
\* when consumed from the back.
C8_Original ==
    (Bounded /\ src = NameAt(0) /\ iter.done) =>
        /\ (FrontOnly => out = Ascending(0, MAX - 1))
        /\ (BackOnly => out = Descending(MAX - 1, 0))

\* C8 (amended): the bounded session created at start() yields the N states
\* in index order from the front; the N states in reverse order are what
\* the bounded session created at end() yields from the back, while the
\* session created at start() yields only start() from the back.
C8_FullPass ==
    (Bounded /\ iter.done) =>
        /\ (FrontOnly /\ src = NameAt(0) => out = Ascending(0, MAX - 1))
        /\ (BackOnly /\ src = NameAt(MAX - 1) => out = Descending(MAX - 1, 0))
        /\ (BackOnly /\ src = NameAt(0) => out = <<NameAt(0)>>)

C8_Witness ==
    /\ BackOnly
    /\ iter.done
    /\ MAX = 5
    /\ src = "E"
    /\ out = <<"E", "D", "C", "B", "A">>

\* C9 as stated: with five states A..E, the bounded session at C yields
\* [D, E] from the front and the bounded session at E yields [D, C, B, A]
\* from the back.
C9_Original ==
    (Bounded /\ iter.done /\ MAX = 5) =>
        /\ (FrontOnly /\ src = "C" => out = <<"D", "E">>)
        /\ (BackOnly /\ src = "E" => out = <<"D", "C", "B", "A">>)

\* C9 (amended): with five states A..E, the bounded session at C yields
\* [C, D, E] from the front and the bounded session at E yields
\* [E, D, C, B, A] from the back: the starting state is included.
C9_WorkedExample ==
    (Bounded /\ iter.done /\ MAX = 5) =>
        /\ (FrontOnly /\ src = "C" => out = <<"C", "D", "E">>)
        /\ (BackOnly /\ src = "E" => out = <<"E", "D", "C", "B", "A">>)

C9_Witness ==
    /\ FrontOnly
    /\ iter.done
    /\ MAX = 5
    /\ src = "C"
    /\ out = <<"C", "D", "E">>

\* C10: once a bounded session is done, no step other than creating a new
\* session clears done or changes the item, and every call of next or
\* next_back returns None and yields nothing.
C10_DoneIsAbsorbing ==
    [][(Bounded /\ iter.done /\ ~(CallIntoIter \/ CallIntoIterOnce)) =>
            /\ iter'.done
            /\ iter'.item = iter.item
            /\ out' = out
            /\ ((CallIterNext \/ CallNextBack) => itRet' = None)]_vars

C10_Witness ==
    /\ Bounded
    /\ iter.done
    /\ Len(dirs) >= 3
    /\ dirs[1] = "front"
    /\ dirs[Len(dirs) - 1] = "front"
    /\ dirs[Len(dirs)] = "back"
    /\ itRet = None
    /\ Len(out) = Len(dirs) - 2

\* an infinite session, and one on which only next has been called
Infinite == live /\ iter.infinite
InfiniteFrontOnly == Infinite /\ \A i \in 1..Len(dirs) : dirs[i] = "front"

\* C11: an infinite session is never done: every call of next or next_back
\* made on it has yielded an element, whatever states the item passed.
C11_InfiniteNeverDone ==
    Infinite =>
        /\ ~iter.done
        /\ Len(out) = Len(dirs)
        /\ (Len(dirs) > 0 => itRet # None /\ itRet = out[Len(out)])

C11_Witness ==
    /\ Infinite
    /\ MAX = 3
    /\ src = "B"
    /\ dirs = <<"front", "front", "front", "back", "back", "back">>
    /\ out = <<"B", "C", "A", "B", "A", "C">>
    /\ ~iter.done

\* C12: the elements of the infinite session created at start(), consumed
\* from the front, are start()..end() in index order, over and over: the
\* i-th element is the state with index (i - 1) mod N.
C12_InfiniteCycles ==
    (InfiniteFrontOnly /\ src = NameAt(0)) =>
        /\ Len(out) = Len(dirs)
        /\ \A i \in 1..Len(out) : out[i] = NameAt((i - 1) % MAX)

C12_Witness ==
    /\ InfiniteFrontOnly
    /\ MAX = 3
    /\ src = "A"
    /\ out = <<"A", "B", "C", "A", "B", "C">>

\* C13: a session is a snapshot: a step that creates a session or calls
\* next or next_back on it (it changes the session or its record) leaves
\* the cursor as it was, and a step that calls next, previous, flip or goto
\* on the cursor (it changes the cursor or its record) leaves the session,
\* and what it has yielded and will yield, as it was.
C13_SessionIsSnapshot ==
    [][/\ (<<live, iter, src, out, dirs, itRet>>' # <<live, iter, src, out, dirs, itRet>>
            => cursor' = cursor)
       /\ (<<cursor, pre, ret, lastOp>>' # <<cursor, pre, ret, lastOp>>
            => <<live, iter, src, out, dirs>>' = <<live, iter, src, out, dirs>>)]_vars

C13_Witness ==
    /\ live
    /\ MAX = 5
    /\ src = "B"
    /\ lastOp = [op |-> "goto", arg |-> "E"]
    /\ cursor = "E"
    /\ out = <<"B", "C">>
    /\ iter.item = "D"

\* C14: flip is only called on a two-state set, and it does what next does:
\* it returns the prior state and leaves the cursor at the other state, so
\* two of them in a row bring the cursor back.
C14_FlipIsNext ==
    /\ lastOp.op = "flip" =>
            /\ MAX = 2
            /\ ~panicked
            /\ ret = pre
            /\ cursor = NameAt((IdxOf(pre) + 1) % MAX)
            /\ cursor # pre
    /\ (MAX = 2 /\ legOp = "next" /\ fwd = 2 /\ back = 0) => cursor = orig

C14_Witness ==
    /\ lastOp.op = "flip"
    /\ MAX = 2
    /\ pre = "B"
    /\ ret = "B"
    /\ cursor = "A"
    /\ fwd = 2
    /\ back = 0
    /\ orig = "A"

\* C15: next, previous and goto never fail, for enums of up to 255 states:
\* after any sequence of them nothing has panicked, the cursor is a state
\* of the enum, and the indices the next call of next or previous would
\* compute are in [0, N) without leaving the u8 range on the way.
C15_CursorOpsTotal ==
    /\ ~panicked
    /\ cursor \in States
    /\ ret # None
    /\ LET t == into(cursor)
       IN  /\ t \in 0..(MAX - 1)
           /\ t + 1 < U8
           /\ ((t + 1) % MAX) \in 0..(MAX - 1)
           /\ (IF t = 0 THEN MAX ELSE t) - 1 \in 0..(MAX - 1)
           /\ ~next(cursor).panic
           /\ ~previous(cursor).panic

C15_Witness ==
    /\ MAX = U8 - 1
    /\ lastOp.op = "next"
    /\ into(pre) = U8 - 2
    /\ into(cursor) = 0
    /\ ret = pre
    /\ ~panicked

\* C16: the conversions are inverse bijections between the states and
\* [0, N): try_from(i) for i in [0, N) is the i-th state and converts back
\* to i, into(s) is an index in [0, N) that converts back to s, and
\* try_from(i) for any other u8 is the error value, not a state.
C16_IndexBijection ==
    /\ lastOp.op = "try_from" =>
            IF lastOp.arg < MAX
            THEN /\ ret \in States
                 /\ ret = NameAt(lastOp.arg)
                 /\ into(ret) = lastOp.arg
            ELSE /\ ret = Err
                 /\ ret \notin States
    /\ lastOp.op = "into" =>
            /\ ret \in 0..(MAX - 1)
            /\ NameAt(ret) = lastOp.arg
            /\ try_from(ret) = lastOp.arg

C16_Witness ==
    /\ MAX = 5
    /\ lastOp = [op |-> "try_from", arg |-> 5]
    /\ ret = Err

\* C17: in a bounded session that is not done, a call of next (the step
\* that records "front"; next_back records "back") sets done
\* exactly when the item it is about to yield is end(), a call of next_back
\* exactly when that item is start(); either way the call yields that item.
C17_DoneAtBoundary ==
    [][/\ (Bounded /\ ~iter.done /\ dirs' = Append(dirs, "front")) =>
            /\ (iter'.done <=> iter.item = NameAt(MAX - 1))
            /\ itRet' = iter.item
       /\ (Bounded /\ ~iter.done /\ dirs' = Append(dirs, "back")) =>
            /\ (iter'.done <=> iter.item = NameAt(0))
            /\ itRet' = iter.item]_vars

C17_Witness ==
    /\ Bounded
    /\ iter.done
    /\ MAX = 4
    /\ src = "B"
    /\ dirs = <<"front", "back", "back", "back">>
    /\ out = <<"B", "C", "B", "A">>
    /\ itRet = "A"

\* C18: in every state of a session, at construction and after any calls,
\* pos is the index of the session's current item.
C18_PosIsItemIndex ==
    live => iter.pos = IdxOf(iter.item)

\* C19: a bounded session, under any interleaving of next and next_back,
\* yields at most N elements (the upper bound size_hint reports) and no
\* state more than once.
C19_SinglePass ==
    Bounded =>
        /\ Len(out) <= size_hint(iter)[2]
        /\ \A i, j \in 1..Len(out) : i # j => out[i] # out[j]

\* C20: at every point of a bounded forward iteration the number of elements
\* still to be yielded is at least the lower and at most the upper bound of
\* size_hint, and the two bounds are equal (ExactSizeIterator).
C20_SizeHintBounds ==
    FrontOnly =>
        LET remaining == (MAX - IdxOf(src)) - Len(out)
            h == size_hint(iter)
        IN  /\ h[1] <= remaining
            /\ remaining <= h[2]
            /\ h[1] = h[2]

==========================================================================
